---- MODULE Spec2Model ----
(***************************************************************************)
(* Model of src/load_files.py: load_pos, load_rankfield, load_property and *)
(* load_fields with its nested get_field.                                  *)
(*                                                                         *)
(* Python lists and numpy arrays are modelled as functions over 0..n-1,    *)
(* keeping the 0-based indices of the source.  A 2D grid snapshot is a     *)
(* function over <<row, column>> pairs.  The directory on disk (the cell   *)
(* files, the time axis, the grid and the phi_field snapshots) is the      *)
(* input of every call and is never written.                               *)
(***************************************************************************)
EXTENDS Integers, Sequences, FiniteSets, TLC

\* ---------------------------------------------------------------- bounds
\* file-name ranks are drawn from 0..MaxRank
MaxRank == 2
\* number of entries of timesteps.npy (and of rows of every cell table)
NumTimes == 2
\* shape of grid_x.npy
GridH == 1
GridW == 2
\* the cell tables are drawn from the data sets 0..MaxSeed
MaxSeed == 1

\* ------------------------------------------------------------- utilities
Range0(n) == 0..(n - 1)

Len0(f) == Cardinality(DOMAIN f)

Empty == [i \in {} |-> 0]

\* --------------------------------------------------------- input on disk
\* The label a phi_field pixel carries when no cell covers it.  The files
\* are written by the simulation; the label is any value that is no rank.
Unoccupied == -1

\* labels a pixel of a phi_field file may carry: the sentinel, the ranks a
\* cell file can have, and one rank no cell file has
Labels == {Unoccupied} \cup (0..(MaxRank + 1))

Pixels == Range0(GridH) \X Range0(GridW)

\* timesteps.npy: the time value stored at each index
DiskTimes == [i \in Range0(NumTimes) |-> i + 1]

\* sample values of the per-cell columns, in {-1, 0, 1}; with seed 0 all
\* columns of a cell agree, otherwise they differ
Sample(seed, k, r, t) == ((r + t + seed * k) % 3) - 1

\* one row of neo_positions_p<r>.csv (only the columns the code reads on)
Row(seed, r, t) ==
    [time |-> DiskTimes[t], rank |-> r,
     v0 |-> Sample(seed, 0, r, t), v1 |-> Sample(seed, 1, r, t),
     S0 |-> Sample(seed, 2, r, t), S1 |-> Sample(seed, 3, r, t),
     S0full |-> Sample(seed, 4, r, t), S1full |-> Sample(seed, 5, r, t)]

\* the file neo_positions_p<r>.csv: the rank in its name and its table
CellFile(seed, r) ==
    [name |-> r, table |-> [t \in Range0(NumTimes) |-> Row(seed, r, t)]]

\* phi_field<time>.npy for every time value: two labels in a checkerboard
\* that shifts by one pixel each timestep
PhiFiles(pal) ==
    [tv \in {DiskTimes[i] : i \in Range0(NumTimes)} |->
        [p \in Pixels |-> IF (p[1] + p[2] + tv) % 2 = 0 THEN pal[1] ELSE pal[2]]]

PropNames == {"velocity", "normalised nematic", "nematic",
              "velocity angle", "nematic angle", "other"}

VARIABLES
    files,      \* disk: the set of neo_positions_p*.csv files
    phi,        \* disk: time value -> phi_field snapshot
    entry,      \* the function that is called
    prop,       \* its prop argument
    pc,         \* position of the call
    positions,  \* load_fields: positions
    ranks,      \* load_fields: ranks
    rankfield,  \* load_fields: rankfield
    times,      \* load_fields: times
    lp,         \* value load_property returned
    fields,     \* the a_field arrays get_field returned so far
    nwrites,    \* per get_field call: how often each pixel was assigned
    result      \* value the called function returned

vars == <<files, phi, entry, prop, pc, positions, ranks, rankfield, times,
          lp, fields, nwrites, result>>

disk == <<files, phi>>

\* a Python value: None, one array, or a tuple of arrays
NoneValue == [kind |-> "None", arrs |-> <<>>]
ArrayValue(a) == [kind |-> "array", arrs |-> <<a>>]
TupleValue(a, b) == [kind |-> "tuple", arrs |-> <<a, b>>]
Pending == [kind |-> "pending", arrs |-> <<>>]

\* ---------------------------------------------------------------- load_pos
\* glob.glob(file_pattern): the files in any order
GlobOrders(fs) ==
    {o \in [Range0(Cardinality(fs)) -> fs] :
        \A i, j \in Range0(Cardinality(fs)) : o[i] = o[j] => i = j}

\* the place element j takes when the array key is sorted ascending (equal
\* keys keep their order)
SortedPos(key, j) ==
    Cardinality({k \in DOMAIN key :
                    key[k] < key[j] \/ (key[k] = key[j] /\ k < j)})

\* np.argsort(ranks)
Argsort(key) ==
    [i \in DOMAIN key |-> CHOOSE j \in DOMAIN key : SortedPos(key, j) = i]

\* the tables left in the order they were read
SortPositionsOmitted(positions_raw) == positions_raw

\* positions_raw.sort(key= lambda elem: elem.iloc[0]['rank'])
SortPositions(positions_raw) ==
    LET key == [j \in DOMAIN positions_raw |-> positions_raw[j][0].rank]
    IN  [i \in DOMAIN positions_raw |->
            positions_raw[CHOOSE j \in DOMAIN key : SortedPos(key, j) = i]]

\* load_pos(input_dir), the files being enumerated in the order o
LoadPos(o) ==
    LET positions_raw == [i \in DOMAIN o |-> o[i].table]
        ranks_read == [i \in DOMAIN o |-> o[i].name]
        sorted_index == Argsort(ranks_read)
    IN  [positions_raw |-> SortPositions(positions_raw),
         ranks |-> [i \in DOMAIN o |-> ranks_read[sorted_index[i]]]]

\* ---------------------------------------------------------- load_rankfield
\* load_grid(input_dir)[0].shape
GridShape == <<GridH, GridW>>

\* load_rankfield(input_dir)
LoadRankfield ==
    LET tm == DiskTimes
        sizes == GridShape
    IN  [rankfield |-> [indt \in DOMAIN tm |->
                          [p \in Range0(sizes[1]) \X Range0(sizes[2]) |->
                              phi[tm[indt]][p]]],
         times |-> tm]

\* ----------------------------------------------------------- load_property
\* np.zeros([len(times), len(ranks)])
Zeros2D(nt, nr) == [t \in Range0(nt) |-> [r \in Range0(nr) |-> 0]]

\* a fill that passes over the ranks it has no table for
RECURSIVE FillColumnsSkipping(_, _, _, _, _)
FillColumnsSkipping(arr, i, pos, rks, col) ==
    IF i = Len0(rks) THEN [fault |-> FALSE, arr |-> arr]
    ELSE IF rks[i] \notin DOMAIN pos
         THEN FillColumnsSkipping(arr, i + 1, pos, rks, col)
    ELSE FillColumnsSkipping([t \in DOMAIN arr |->
                                 [arr[t] EXCEPT ![rks[i]] = pos[rks[i]][t][col]]],
                             i + 1, pos, rks, col)

\* for rank in ranks: arr[:, rank] = positions[rank][col], from the i-th
\* rank on.  positions[rank] raises IndexError when rank >= len(positions)
\* (ranks parsed by \d+ are never negative).
RECURSIVE FillColumns(_, _, _, _, _)
FillColumns(arr, i, pos, rks, col) ==
    IF i = Len0(rks) THEN [fault |-> FALSE, arr |-> arr]
    ELSE IF rks[i] \notin DOMAIN pos THEN [fault |-> TRUE, arr |-> arr]
    ELSE FillColumns([t \in DOMAIN arr |->
                         [arr[t] EXCEPT ![rks[i]] = pos[rks[i]][t][col]]],
                     i + 1, pos, rks, col)

\* value of numpy's nan (0/0 in the nematic angle)
NaN == 1000

Sign(x) == IF x > 0 THEN 1 ELSE IF x < 0 THEN -1 ELSE 0

\* np.arctan2(y, x) in units of pi/4, for x, y in {-1, 0, 1}
Arctan2(y, x) ==
    CASE y = 0 /\ x >= 0 -> 0
      [] y = 0 /\ x < 0  -> 4
      [] y > 0 -> 2 - Sign(x)
      [] y < 0 -> Sign(x) - 2

\* np.sign(S1) * (np.arctan(S0/np.abs(S1))/2.0 + np.pi/4.0) in units of
\* pi/8, for S0, S1 in {-1, 0, 1}: S0/0 is +-inf (arctan +-pi/2) or nan
NematicAngle(S0, S1) ==
    IF S1 # 0 THEN Sign(S1) * (S0 + 2)
    ELSE IF S0 = 0 THEN NaN
    ELSE 0

\* vel_orient = np.arctan2(v1, v0), elementwise
VelOrient(v0, v1) ==
    [t \in DOMAIN v0 |-> [r \in DOMAIN v0[t] |-> Arctan2(v1[t][r], v0[t][r])]]

\* nem_orient, elementwise
NemOrient(S0, S1) ==
    [t \in DOMAIN S0 |-> [r \in DOMAIN S0[t] |-> NematicAngle(S0[t][r], S1[t][r])]]

\* 'nematic' reading the normalised columns
ColumnsOfNormalised(p) ==
    CASE p = "velocity" -> <<"v0", "v1">>
      [] p = "normalised nematic" -> <<"S0", "S1">>
      [] p = "nematic" -> <<"S0", "S1">>
      [] p = "velocity angle" -> <<"v0", "v1">>
      [] p = "nematic angle" -> <<"S0", "S1">>

\* the two columns load_property reads for prop
ColumnsOf(p) ==
    CASE p = "velocity" -> <<"v0", "v1">>
      [] p = "normalised nematic" -> <<"S0", "S1">>
      [] p = "nematic" -> <<"S0full", "S1full">>
      [] p = "velocity angle" -> <<"v0", "v1">>
      [] p = "nematic angle" -> <<"S0full", "S1full">>

\* an unmatched prop raising an error
FallThroughRaising == [fault |-> TRUE, value |-> NoneValue]

\* load_property matching none of its five ifs: the function ends, None
FallThrough == [fault |-> FALSE, value |-> NoneValue]

\* load_property(input_dir, prop), its load_pos enumerating in the order o
LoadProperty(p, o) ==
    LET lpos == LoadPos(o)
        tm == LoadRankfield.times
        zeros == Zeros2D(Len0(tm), Len0(lpos.ranks))
        c0 == FillColumns(zeros, 0, lpos.positions_raw, lpos.ranks, ColumnsOf(p)[1])
        c1 == FillColumns(zeros, 0, lpos.positions_raw, lpos.ranks, ColumnsOf(p)[2])
    IN  IF p \notin {"velocity", "normalised nematic", "nematic",
                     "velocity angle", "nematic angle"}
        THEN FallThrough
        ELSE IF c0.fault \/ c1.fault THEN [fault |-> TRUE, value |-> NoneValue]
        ELSE CASE p = "velocity angle" ->
                    [fault |-> FALSE,
                     value |-> ArrayValue(VelOrient(c0.arr, c1.arr))]
               [] p = "nematic angle" ->
                    [fault |-> FALSE,
                     value |-> ArrayValue(NemOrient(c0.arr, c1.arr))]
               [] OTHER ->
                    [fault |-> FALSE, value |-> TupleValue(c0.arr, c1.arr)]

\* ------------------------------------------------- load_fields / get_field
\* the comparison <= in place of ==
MaskUpTo(indt, rank) == {p \in DOMAIN rankfield[indt] : rankfield[indt][p] <= rank}

\* the comparison >= in place of ==
MaskFrom(indt, rank) == {p \in DOMAIN rankfield[indt] : rankfield[indt][p] >= rank}

\* rankfield[indt]==(rank): the pixels of snapshot indt that carry rank
Mask(indt, rank) == {p \in DOMAIN rankfield[indt] : rankfield[indt][p] = rank}

\* np.ones in place of np.zeros
OnesLike(rf) ==
    [field |-> [t \in DOMAIN rf |-> [p \in DOMAIN rf[t] |-> 1]],
     nwrites |-> [t \in DOMAIN rf |-> [p \in DOMAIN rf[t] |-> 0]]]

\* the zeros lacking the first snapshot
ZerosLikeTail(rf) ==
    [field |-> [t \in DOMAIN rf \ {0} |-> [p \in DOMAIN rf[t] |-> 0]],
     nwrites |-> [t \in DOMAIN rf \ {0} |-> [p \in DOMAIN rf[t] |-> 0]]]

\* np.zeros(rankfield.shape), with the count of assignments to each pixel
ZerosLike(rf) ==
    [field |-> [t \in DOMAIN rf |-> [p \in DOMAIN rf[t] |-> 0]],
     nwrites |-> [t \in DOMAIN rf |-> [p \in DOMAIN rf[t] |-> 0]]]

\* the value taken from the first timestep: a[0, indr]
PaintRankFirstRow(st, a, indt, indr) ==
    LET mask == {p \in DOMAIN rankfield[indt] : rankfield[indt][p] = ranks[indr]}
    IN  [field |-> [st.field EXCEPT ![indt] =
                       [p \in DOMAIN @ |-> IF p \in mask THEN a[0][indr] ELSE @[p]]],
         nwrites |-> [st.nwrites EXCEPT ![indt] =
                       [p \in DOMAIN @ |-> IF p \in mask THEN @[p] + 1 ELSE @[p]]]]

\* a_field[indt][rankfield[indt]==(rank)] = a[indt, indr]
PaintRank(st, a, indt, indr) ==
    LET mask == Mask(indt, ranks[indr])
    IN  [field |-> [st.field EXCEPT ![indt] =
                       [p \in DOMAIN @ |-> IF p \in mask THEN a[indt][indr] ELSE @[p]]],
         nwrites |-> [st.nwrites EXCEPT ![indt] =
                       [p \in DOMAIN @ |-> IF p \in mask THEN @[p] + 1 ELSE @[p]]]]

\* for indr, rank in enumerate(ranks), the indices taken in the order rord
RECURSIVE PaintRanks(_, _, _, _)
PaintRanks(st, a, indt, rord) ==
    IF rord = <<>> THEN st
    ELSE PaintRanks(PaintRank(st, a, indt, Head(rord)), a, indt, Tail(rord))

\* for indt, time in enumerate(times), the indices taken in the order tord
RECURSIVE PaintTimes(_, _, _, _)
PaintTimes(st, a, tord, rord) ==
    IF tord = <<>> THEN st
    ELSE PaintTimes(PaintRanks(st, a, Head(tord), rord), a, Tail(tord), rord)

\* enumerate(x): the indices of x in ascending order
Enumerate(x) == [i \in 1..Len0(x) |-> i - 1]

\* get_field(a)
GetField(a) == PaintTimes(ZerosLike(rankfield), a, Enumerate(times), Enumerate(ranks))

prop2D == {"velocity", "normalised nematic", "nematic"}
prop1D == {"velocity angle", "nematic angle"}

\* ------------------------------------------------------------------ actions
Init ==
    /\ \E rs \in SUBSET (0..MaxRank), seed \in 0..MaxSeed :
          files = {CellFile(seed, r) : r \in rs}
    /\ \E pal \in Labels \X Labels : phi = PhiFiles(pal)
    /\ entry \in {"load_fields", "load_property"}
    /\ prop \in PropNames
    /\ pc = "start"
    /\ positions = Empty
    /\ ranks = Empty
    /\ rankfield = Empty
    /\ times = Empty
    /\ lp = Pending
    /\ fields = <<>>
    /\ nwrites = <<>>
    /\ result = Pending

\* load_fields, lines 129-130
LoadFieldsInputs ==
    /\ pc = "start" /\ entry = "load_fields"
    /\ \E o \in GlobOrders(files) :
          /\ positions' = LoadPos(o).positions_raw
          /\ ranks' = LoadPos(o).ranks
    /\ rankfield' = LoadRankfield.rankfield
    /\ times' = LoadRankfield.times
    /\ pc' = "loaded"
    /\ UNCHANGED <<disk, entry, prop, lp, fields, nwrites, result>>

\* load_fields, the load_property call of line 155 or 160
LoadFieldsProperty ==
    /\ pc = "loaded" /\ prop \in prop2D \cup prop1D
    /\ \E o \in GlobOrders(files) :
          LET r == LoadProperty(prop, o)
          IN  IF r.fault
              THEN pc' = "fault" /\ lp' = lp
              ELSE pc' = "painting" /\ lp' = r.value
    /\ UNCHANGED <<disk, entry, prop, positions, ranks, rankfield, times,
                   fields, nwrites, result>>

\* a get_field whose a_field is kept as the rank grid of the later calls
GetFieldCallAliasing ==
    /\ pc = "painting" /\ Len(fields) < Len(lp.arrs)
    /\ LET st == GetField(lp.arrs[Len(fields) + 1])
       IN  /\ fields' = Append(fields, st.field)
           /\ nwrites' = Append(nwrites, st.nwrites)
           /\ rankfield' = st.field
    /\ UNCHANGED <<disk, entry, prop, pc, positions, ranks, times, lp, result>>

\* load_fields, the next get_field call of line 156 or 160
GetFieldCall ==
    /\ pc = "painting" /\ Len(fields) < Len(lp.arrs)
    /\ LET st == GetField(lp.arrs[Len(fields) + 1])
       IN  /\ fields' = Append(fields, st.field)
           /\ nwrites' = Append(nwrites, st.nwrites)
    /\ UNCHANGED <<disk, entry, prop, pc, positions, ranks, rankfield, times,
                   lp, result>>

\* load_fields, the return of line 156 or 160
ReturnFields ==
    /\ pc = "painting" /\ Len(fields) = Len(lp.arrs)
    /\ result' = [kind |-> lp.kind, arrs |-> fields]
    /\ pc' = "done"
    /\ UNCHANGED <<disk, entry, prop, positions, ranks, rankfield, times,
                   lp, fields, nwrites>>

\* load_fields falling off its end: prop is in neither list
ReturnNone ==
    /\ pc = "loaded" /\ prop \notin prop2D \cup prop1D
    /\ result' = NoneValue
    /\ pc' = "done"
    /\ UNCHANGED <<disk, entry, prop, positions, ranks, rankfield, times,
                   lp, fields, nwrites>>

\* a direct call of load_property
CallLoadProperty ==
    /\ pc = "start" /\ entry = "load_property"
    /\ \E o \in GlobOrders(files) :
          LET r == LoadProperty(prop, o)
          IN  IF r.fault
              THEN pc' = "fault" /\ UNCHANGED <<lp, result>>
              ELSE pc' = "done" /\ lp' = r.value /\ result' = r.value
    /\ UNCHANGED <<disk, entry, prop, positions, ranks, rankfield, times,
                   fields, nwrites>>

Next ==
    \/ LoadFieldsInputs
    \/ LoadFieldsProperty
    \/ GetFieldCall
    \/ ReturnFields
    \/ ReturnNone
    \/ CallLoadProperty

Spec == Init /\ [][Next]_vars

\* ------------------------------------------------------------------ claims
Recognised == prop2D \cup prop1D

\* the ranks of the cell files on disk
RankSet == {f.name : f \in files}

\* the rank set is exactly {0, ..., len(ranks)-1}
DenseRanks == RankSet = Range0(Cardinality(files))

\* load_property has been called and has ended (by a return or a fault)
LoadPropertyEnded ==
    \/ entry = "load_property" /\ pc # "start"
    \/ entry = "load_fields" /\ pc \in {"painting", "fault"}
    \/ entry = "load_fields" /\ pc = "done" /\ prop \in Recognised

\* the k-th array load_property returned is the input of the k-th
\* get_field call, whose output is fields[k]
Painted == 1..Len(fields)

\* some pixel of some painted field is not zero
SomeNonZero ==
    \E k \in Painted : \E t \in DOMAIN fields[k] : \E p \in DOMAIN fields[k][t] :
        fields[k][t][p] # 0

\* C1: every pixel that carries a known rank r at timestep t holds a[t][r],
\* the per-rank array being indexed by the rank value
C1_PaintedByRankValue ==
    \A k \in Painted : \A t \in DOMAIN rankfield : \A i \in DOMAIN ranks :
        \A p \in DOMAIN rankfield[t] :
            rankfield[t][p] = ranks[i] => fields[k][t][p] = lp.arrs[k][t][ranks[i]]

C1_Witness ==
    /\ pc = "done" /\ entry = "load_fields" /\ Len0(ranks) >= 2
    /\ result.kind = "tuple"
    /\ \E t \in DOMAIN rankfield : \E p \in DOMAIN rankfield[t] :
          /\ rankfield[t][p] = 1
          /\ result.arrs[1][t][p] = lp.arrs[1][t][1]
          /\ result.arrs[1][t][p] # 0

\* C2: a pixel holding the unoccupied sentinel is 0 in every returned field
C2_UnoccupiedIsZero ==
    \A k \in Painted : \A t \in DOMAIN rankfield : \A p \in DOMAIN rankfield[t] :
        rankfield[t][p] = Unoccupied => fields[k][t][p] = 0

C2_Witness ==
    /\ pc = "done" /\ entry = "load_fields" /\ 0 \in RankSet
    /\ result.kind = "array"
    /\ \E t \in DOMAIN rankfield : \E p, q \in DOMAIN rankfield[t] :
          /\ rankfield[t][p] = Unoccupied /\ result.arrs[1][t][p] = 0
          /\ rankfield[t][q] = 0 /\ result.arrs[1][t][q] # 0

\* C3: a label of the grid that is no known rank raises no error and its
\* pixels stay 0, while the pixels of the known ranks are painted
C3_UnknownLabelBenign ==
    (\E t \in DOMAIN rankfield : \E p \in DOMAIN rankfield[t] :
        rankfield[t][p] \notin RankSet)
    =>  /\ (pc = "fault" => fields = <<>> /\ ~DenseRanks)
        /\ \A k \in Painted : \A t \in DOMAIN rankfield :
              \A p \in DOMAIN rankfield[t] :
                 IF rankfield[t][p] \in RankSet
                 THEN fields[k][t][p] = lp.arrs[k][t][rankfield[t][p]]
                 ELSE fields[k][t][p] = 0

C3_Witness ==
    /\ pc = "done" /\ entry = "load_fields" /\ Len0(ranks) >= 1
    /\ result.kind = "tuple"
    /\ \E t \in DOMAIN rankfield : \E p, q \in DOMAIN rankfield[t] :
          /\ rankfield[t][p] \notin RankSet /\ rankfield[t][p] # Unoccupied
          /\ result.arrs[1][t][p] = 0
          /\ rankfield[t][q] \in RankSet /\ result.arrs[1][t][q] # 0

\* C4: every returned field has len(times) snapshots, each of the height and
\* width of the rank grid, and one (angles) or two arrays are returned
C4_Shape ==
    /\ \A k \in Painted :
          /\ DOMAIN fields[k] = Range0(Len0(times))
          /\ Len0(fields[k]) = NumTimes
          /\ \A t \in DOMAIN fields[k] :
                /\ DOMAIN fields[k][t] = DOMAIN rankfield[t]
                /\ DOMAIN fields[k][t] = Range0(GridH) \X Range0(GridW)
    /\ (pc = "done" /\ entry = "load_fields" /\ prop \in prop2D)
          => result.kind = "tuple" /\ Len(result.arrs) = 2
    /\ (pc = "done" /\ entry = "load_fields" /\ prop \in prop1D)
          => result.kind = "array" /\ Len(result.arrs) = 1

C4_Witness ==
    /\ pc = "done" /\ entry = "load_fields" /\ prop = "nematic"
    /\ Len(result.arrs) = 2 /\ Len0(ranks) >= 1
    /\ Len0(result.arrs[2]) = NumTimes
    /\ SomeNonZero

\* C5: for an unrecognised property name load_property and load_fields
\* return None, raise no error and paint no field
C5_UnrecognisedYieldsNone ==
    prop \notin Recognised =>
        /\ pc # "fault"
        /\ fields = <<>>
        /\ (pc = "done" => result = NoneValue)

C5_Witness ==
    /\ prop = "other" /\ pc = "done" /\ result = NoneValue
    /\ entry = "load_property" /\ files # {}

\* the attribute the k-th array of load_property(prop) holds, taken from a
\* row of a cell table
ExpectedAttr(p, k, row) ==
    CASE p = "velocity" -> IF k = 1 THEN row.v0 ELSE row.v1
      [] p = "normalised nematic" -> IF k = 1 THEN row.S0 ELSE row.S1
      [] p = "nematic" -> IF k = 1 THEN row.S0full ELSE row.S1full
      [] p = "velocity angle" -> Arctan2(row.v1, row.v0)
      [] p = "nematic angle" -> NematicAngle(row.S0full, row.S1full)

\* C6: every array load_property returns has shape [num_timesteps,
\* num_ranks], and column r holds at row t the attribute of the cell whose
\* rank is r
C6_IndexedByRank ==
    (LoadPropertyEnded /\ pc # "fault" /\ prop \in Recognised) =>
        \A k \in 1..Len(lp.arrs) :
            /\ DOMAIN lp.arrs[k] = Range0(NumTimes)
            /\ \A t \in DOMAIN lp.arrs[k] :
                  /\ DOMAIN lp.arrs[k][t] = Range0(Cardinality(files))
                  /\ \A f \in files :
                        lp.arrs[k][t][f.table[0].rank]
                            = ExpectedAttr(prop, k, f.table[t])

C6_Witness ==
    /\ entry = "load_property" /\ pc = "done" /\ prop = "nematic angle"
    /\ Cardinality(files) >= 2
    /\ \E t \in DOMAIN lp.arrs[1] : lp.arrs[1][t][1] # lp.arrs[1][t][0]

\* C7: a get_field call leaves the rank grid, the time axis, the rank array
\* and the per-rank arrays as they were, and two calls on equal per-rank
\* arrays return equal fields
C7_Pure ==
    /\ [][Len(fields') > Len(fields)
            => UNCHANGED <<rankfield, times, ranks, lp>>]_vars
    /\ []((Len(fields) = 2 /\ lp.arrs[1] = lp.arrs[2]) => fields[1] = fields[2])

C7_Witness ==
    /\ Len(fields) = 2 /\ lp.arrs[1] = lp.arrs[2] /\ fields[1] = fields[2]
    /\ SomeNonZero

\* C8: whatever the order of the files, load_pos returns the ranks in
\* ascending order and positions_raw[i] is the table of the cell of rank
\* ranks[i]
C8_SortedAndAligned ==
    (entry = "load_fields" /\ pc # "start") =>
        /\ DOMAIN ranks = Range0(Cardinality(files))
        /\ DOMAIN positions = DOMAIN ranks
        /\ \A i, j \in DOMAIN ranks : i < j => ranks[i] < ranks[j]
        /\ \A i \in DOMAIN ranks :
              /\ positions[i][0].rank = ranks[i]
              /\ \E f \in files : f.name = ranks[i] /\ f.table = positions[i]

C8_Witness ==
    /\ entry = "load_fields" /\ pc = "loaded" /\ Len0(ranks) >= 2
    /\ positions[1][0].rank = ranks[1]

\* C9 as stated: load_property ends in an out-of-bounds fault whenever the
\* rank set is not exactly {0..len(ranks)-1}, and never otherwise
C9_Original ==
    LoadPropertyEnded => (pc = "fault" <=> ~DenseRanks)

\* C9 as amended: the same, for the five recognised property names
C9_FaultIffNotDense ==
    (LoadPropertyEnded /\ prop \in Recognised) => (pc = "fault" <=> ~DenseRanks)

C9_Witness ==
    /\ entry = "load_property" /\ prop = "velocity" /\ pc = "fault"
    /\ ~DenseRanks /\ 0 \in RankSet

\* all orders in which the indices of x can be iterated
Orders(x) ==
    {o \in [1..Len0(x) -> DOMAIN x] : \A i, j \in 1..Len0(x) : o[i] = o[j] => i = j}

\* C10: in a get_field call every pixel of every snapshot is assigned at
\* most once, and the field is the same in whatever order the ranks and
\* the timesteps are iterated
C10_NoOverwrite ==
    \A k \in Painted :
        /\ \A t \in DOMAIN nwrites[k] : \A p \in DOMAIN nwrites[k][t] :
              nwrites[k][t][p] <= 1
        /\ \A tord \in Orders(times) : \A rord \in Orders(ranks) :
              PaintTimes(ZerosLike(rankfield), lp.arrs[k], tord, rord).field
                  = fields[k]

C10_Witness ==
    /\ pc = "done" /\ entry = "load_fields" /\ Len0(ranks) >= 2
    /\ Len(fields) = 2
    /\ \E t \in DOMAIN rankfield : \E p, q \in DOMAIN rankfield[t] :
          /\ rankfield[t][p] = 0 /\ rankfield[t][q] = 1
          /\ nwrites[1][t][p] = 1 /\ nwrites[1][t][q] = 1
          /\ fields[1][t][p] # fields[1][t][q]

====
